---- MODULE Spec2Model ----
(***************************************************************************)
(* VoteScoreCalculator (src/components/newsList.js, lines 648-1264).       *)
(*                                                                         *)
(* One calculator instance: a policy (threshold, minVotes), the tally      *)
(* voteData, the snapshot scoreData, the id of the article last written    *)
(* (currentNewsId) and the recalculateScore calls that are suspended at    *)
(* their await.  JavaScript runs each synchronous stretch atomically, so   *)
(* every public method is one action and recalculateScore is two: the      *)
(* call up to its await, and the continuation after the timer fires.       *)
(*                                                                         *)
(* Numbers.  Vote counts are integers.  threshold and fakeScore are exact  *)
(* rationals [n, d] with d > 0 in lowest terms; for the small integers     *)
(* used here two quotients are the same double exactly when they are the   *)
(* same rational.  confidence is kept in hundredths, with the non-finite   *)
(* results of the division by minVotes * 5 kept as their own kinds; where  *)
(* the exact value is a rounding tie it is computed in double arithmetic.  *)
(* An absent (undefined) property of an options or data object is the      *)
(* empty sequence, a present one a one-element sequence.                   *)
(***************************************************************************)
EXTENDS Integers, Sequences, FiniteSets, TLC

VARIABLES onStatusChange, onScoreUpdate, threshold, minVotes, currentNewsId,
          voteData, scoreData, inFlight, started, out,
          auth, mounted, userVote, voteStats, isVoting, ledger, loading,
          voting, submits

vars == <<onStatusChange, onScoreUpdate, threshold, minVotes, currentNewsId,
          voteData, scoreData, inFlight, started, out,
          auth, mounted, userVote, voteStats, isVoting, ledger, loading,
          voting, submits>>

\* what the constructor sets and no method changes
config == <<onStatusChange, onScoreUpdate>>

\* the calculator, but for the record of its last operation
calculator == <<config, threshold, minVotes, currentNewsId, voteData, scoreData,
                inFlight, started>>

\* the VoteComponent of the page and the vote server it talks to
voteComponent == <<auth, mounted, userVote, voteStats, isVoting, ledger, loading,
                   voting, submits>>

(* ---------------------------------------------------------------------- *)
(* Bounds                                                                  *)
(* ---------------------------------------------------------------------- *)

\* recalculateScore calls issued over a run (each may add votes)
MaxRecalcs == 2

\* recalculateScore calls suspended at their await at the same time
MaxInFlight == 2

\* votes of each kind in the tallies given to the progress bar
MaxVotes == 8

(* ---------------------------------------------------------------------- *)
(* Values                                                                  *)
(* ---------------------------------------------------------------------- *)

Undefined == <<>>

Some(x) == <<x>>

Rat(n, d) == [n |-> n, d |-> d]

Abs(x) == IF x < 0 THEN -x ELSE x

RECURSIVE Gcd(_, _)
Gcd(a, b) == IF b = 0 THEN a ELSE Gcd(b, a % b)

\* the double a / b for b > 0, as the rational in lowest terms
Quotient(a, b) ==
    LET g == Gcd(Abs(a), b)
    IN  Rat(a \div g, b \div g)

\* x >= y on rationals with positive denominators
RatGeq(x, y) == x.n * y.d >= y.n * x.d

\* x || dflt for a numeric property: undefined and 0 are falsy
OrNum(x, dflt) == IF x = Undefined THEN dflt ELSE IF x[1] = 0 THEN dflt ELSE x[1]

\* x || dflt for a fractional property
OrRat(x, dflt) == IF x = Undefined THEN dflt ELSE IF x[1].n = 0 THEN dflt ELSE x[1]

\* article ids; a run of Spec works on the one article OneArticle
NewsIds == {"a", "b"}

OneArticle == {"a"}

NoNews == "null"

DefaultThreshold == Rat(3, 5)

DefaultMinVotes == 5

\* values passed as options.threshold / to setThreshold
ThresholdArgs == {Rat(0, 1), Rat(1, 2), Rat(3, 5), Rat(3, 2), Rat(-1, 2)}

ThresholdOptions == {Undefined, Some(Rat(0, 1)), Some(Rat(1, 2)), Some(Rat(3, 2))}

\* values passed as options.minVotes / to setMinVotes
MinVotesArgs == {0, 3, 5, -1}

MinVotesOptions == {Undefined, Some(0), Some(3), Some(-1)}

\* a callback passed in the options either returns or throws when called;
\* the default function() {} returns
CallbackOptions == {"returns", "throws"}

Data(f, n, t, i, v) ==
    [fakeVotes |-> f, nonFakeVotes |-> n, totalVotes |-> t, invalidVotes |-> i,
     validVotes |-> v]

\* data objects passed to updateVoteData
VoteInputs ==
    { Data(Some(6), Some(4), Undefined, Undefined, Undefined),
      Data(Some(4), Some(0), Undefined, Undefined, Undefined),
      Data(Some(30), Some(20), Some(55), Some(5), Some(50)),
      Data(Some(11), Some(9), Undefined, Some(1), Undefined),
      Data(Undefined, Undefined, Undefined, Undefined, Undefined),
      Data(Some(-1), Some(2), Undefined, Undefined, Undefined),
      Data(Some(1), Some(-2), Undefined, Undefined, Undefined),
      Data(Some(17), Some(63), Undefined, Undefined, Undefined),
      Data(Some(1), Some(1), Some(9), Some(2), Some(5)) }

ZeroVotes ==
    [fakeVotes |-> 0, nonFakeVotes |-> 0, totalVotes |-> 0, invalidVotes |-> 0,
     validVotes |-> 0]

PendingScore ==
    [fakeScore |-> Rat(0, 1), confidence |-> [kind |-> "finite", v |-> 0],
     status |-> "pending"]

EmptyOut ==
    [op |-> "none", newsId |-> NoNews, arg |-> Undefined, accepted |-> TRUE,
     threw |-> FALSE, scoreUpdates |-> 0, statusEvents |-> <<>>,
     value |-> Undefined, overlapped |-> FALSE, calls |-> <<>>]

(* ---------------------------------------------------------------------- *)
(* IEEE 754 double arithmetic of calculateConfidence, lines 763-769        *)
(*                                                                         *)
(* A positive double is m * 2^e with m a natural number below 2^53, kept   *)
(* as a little-endian sequence of 14-bit limbs.  Quotients and products    *)
(* are computed exactly and rounded once to 53 bits, ties to even, as the  *)
(* processor does.                                                         *)
(* ---------------------------------------------------------------------- *)

\* significand bits of a double
Precision == 53

LimbBits == 14

Limb == 2^LimbBits

RECURSIVE Trim(_)
Trim(n) == IF n = <<>> THEN n
           ELSE IF n[Len(n)] = 0 THEN Trim(SubSeq(n, 1, Len(n) - 1)) ELSE n

RECURSIVE BitLenSmall(_)
BitLenSmall(x) == IF x = 0 THEN 0 ELSE 1 + BitLenSmall(x \div 2)

BitLen(n) ==
    LET t == Trim(n)
    IN  IF t = <<>> THEN 0 ELSE LimbBits * (Len(t) - 1) + BitLenSmall(t[Len(t)])

\* a natural number below Limb * Limb
FromInt(x) == Trim(<<x % Limb, x \div Limb>>)

ToInt(n) ==
    LET t == Trim(n)
    IN  IF t = <<>> THEN 0 ELSE IF Len(t) = 1 THEN t[1] ELSE t[1] + Limb * t[2]

RECURSIVE AddCarry(_, _, _)
AddCarry(a, b, c) ==
    IF a = <<>> /\ b = <<>> THEN (IF c = 0 THEN <<>> ELSE <<c>>)
    ELSE LET x == (IF a = <<>> THEN 0 ELSE a[1]) + (IF b = <<>> THEN 0 ELSE b[1]) + c
         IN  <<x % Limb>> \o AddCarry(IF a = <<>> THEN a ELSE Tail(a),
                                      IF b = <<>> THEN b ELSE Tail(b),
                                      x \div Limb)

RECURSIVE MulSmallCarry(_, _, _)
MulSmallCarry(a, k, c) ==
    IF a = <<>> THEN (IF c = 0 THEN <<>> ELSE <<c>>)
    ELSE LET x == a[1] * k + c
         IN  <<x % Limb>> \o MulSmallCarry(Tail(a), k, x \div Limb)

\* a * b on naturals
RECURSIVE MulNat(_, _)
MulNat(a, b) ==
    IF a = <<>> THEN <<>>
    ELSE IF Len(a) = 1 THEN MulSmallCarry(b, a[1], 0)
    ELSE AddCarry(MulSmallCarry(b, a[1], 0), <<0>> \o MulNat(Tail(a), b), 0)

\* floor(n / 2^s)
ShiftRight(n, s) ==
    LET k  == s \div LimbBits
        lo == 2^(s % LimbBits)
        hi == Limb \div lo
        d  == IF k >= Len(n) THEN <<>> ELSE SubSeq(n, k + 1, Len(n))
    IN  Trim([i \in 1..Len(d) |->
                (d[i] \div lo)
                + (IF i < Len(d) THEN (d[i + 1] % lo) * hi ELSE 0)])

\* n * 2^s
ShiftLeft(n, s) ==
    [i \in 1..(s \div LimbBits) |-> 0] \o MulSmallCarry(n, 2^(s % LimbBits), 0)

\* bit i of n, bit 0 the lowest
BitAt(n, i) ==
    LET k == i \div LimbBits + 1
    IN  IF k > Len(n) THEN 0 ELSE (n[k] \div 2^(i % LimbBits)) % 2

\* n mod 2^s # 0
LowBitsSet(n, s) ==
    \/ \E i \in 1..Len(n) : i <= s \div LimbBits /\ n[i] # 0
    \/ s \div LimbBits < Len(n) /\ n[s \div LimbBits + 1] % 2^(s % LimbBits) # 0

\* the double nearest to n * 2^e (plus a little more when sticky), ties to even
RoundToDouble(n, sticky, e) ==
    LET s == BitLen(n) - Precision
    IN  IF s <= 0 THEN [m |-> Trim(n), e |-> e]
        ELSE LET m    == ShiftRight(n, s)
                 rest == sticky \/ LowBitsSet(n, s - 1)
                 up   == BitAt(n, s - 1) = 1 /\ (rest \/ BitAt(m, 0) = 1)
             IN  [m |-> IF up THEN AddCarry(m, <<1>>, 0) ELSE m, e |-> e + s]

\* n \div b and n % b for a small b, from the top limb down: <<quotient, remainder>>
RECURSIVE DivSmall(_, _)
DivSmall(n, b) ==
    IF n = <<>> THEN <<n, 0>>
    ELSE LET hi  == DivSmall(Tail(n), b)
             cur == hi[2] * Limb + n[1]
         IN  <<(<<cur \div b>>) \o hi[1], cur % b>>

\* the double a / b for naturals 0 < a, b < Limb
DoubleDiv(a, b) ==
    LET qr == DivSmall(<<0, 0, 0, 0, 0, a>>, b)
    IN  RoundToDouble(qr[1], qr[2] # 0, -(5 * LimbBits))

\* the double x * y
DoubleMul(x, y) == RoundToDouble(MulNat(x.m, y.m), FALSE, x.e + y.e)

DoubleOf(k) == [m |-> FromInt(k), e |-> 0]

\* Math.round(x) for the double x > 0, and -Math.round(-x): <<up, down>> where
\* up = floor(x + 1/2) and down = ceil(x - 1/2)
RoundDouble(x) ==
    IF x.e >= 0 THEN <<ToInt(ShiftLeft(x.m, x.e)), ToInt(ShiftLeft(x.m, x.e))>>
    ELSE LET whole == ToInt(ShiftRight(x.m, -x.e))
             half  == BitAt(x.m, -x.e - 1) = 1
             more  == LowBitsSet(x.m, -x.e - 1)
         IN  <<IF half THEN whole + 1 ELSE whole,
               IF half /\ more THEN whole + 1 ELSE whole>>

\* a - b on naturals, a >= b
RECURSIVE SubBorrow(_, _, _)
SubBorrow(a, b, c) ==
    IF a = <<>> THEN <<>>
    ELSE LET x == a[1] - (IF b = <<>> THEN 0 ELSE b[1]) - c
         IN  <<(x + Limb) % Limb>>
             \o SubBorrow(Tail(a), IF b = <<>> THEN b ELSE Tail(b),
                          IF x < 0 THEN 1 ELSE 0)

\* the double 1 - x for a double 0 < x < 1
OneMinus(x) == RoundToDouble(SubBorrow(ShiftLeft(<<1>>, -x.e), x.m, 0), FALSE, x.e)

(* ---------------------------------------------------------------------- *)
(* calculateConfidence, lines 757-770                                      *)
(* ---------------------------------------------------------------------- *)

Finite(v) == [kind |-> "finite", v |-> v]

\* Math.round(x * 100) for x * 100 = num / den, den # 0: floor(x * 100 + 1/2)
RoundHundredths(num, den) ==
    LET sn == IF den < 0 THEN -num ELSE num
        sd == Abs(den)
    IN  (2 * sn + sd) \div (2 * sd)

\* total / (minVotes * 5) < 1, for minVotes # 0
BelowSaturation(total, mv) ==
    \/ mv > 0 /\ total < mv * 5
    \/ mv < 0 /\ total > mv * 5

\* num / den lies exactly halfway between two integers
IsTie(num, den) == (2 * Abs(num)) % (2 * Abs(den)) = Abs(den)

\* Math.round(confidence * 100), lines 763-769, where confidence is
\* diff / total (scaled = FALSE, den = total) or
\* (diff / total) * (total / den) (scaled = TRUE, den = minVotes * 5).
\* Away from a tie the doubles round like the exact value diff * 100 / den:
\* the exact value is at least 1 / (2 * den) away from the nearest tie, the
\* rounding errors of the three operations are below 10^-13.  At a tie the
\* doubles decide.
ConfidenceHundredths(diff, total, den, scaled) ==
    IF IsTie(100 * diff, den)
    THEN LET rd == DoubleDiv(diff, Abs(total))
             c  == IF scaled THEN DoubleMul(rd, DoubleDiv(Abs(total), Abs(den)))
                   ELSE rd
             r  == RoundDouble(DoubleMul(DoubleOf(100), c))
         IN  IF den > 0 THEN r[1] ELSE -r[2]
    ELSE RoundHundredths(100 * diff, den)

calculateConfidence(fakeVotes, nonFakeVotes, mv) ==
    LET total == fakeVotes + nonFakeVotes
        diff  == Abs(fakeVotes - nonFakeVotes)
    IN  IF total = 0 THEN Finite(0)
        ELSE IF mv = 0
             THEN \* total / 0 is +Infinity or -Infinity
                  IF total > 0 THEN Finite(ConfidenceHundredths(diff, total, total, FALSE))
                  ELSE IF diff = 0 THEN [kind |-> "NaN", v |-> 0]
                  ELSE [kind |-> "Infinity", v |-> 0]
             ELSE IF BelowSaturation(total, mv)
                  THEN \* (diff / total) * (total / (mv * 5))
                       Finite(ConfidenceHundredths(diff, total, mv * 5, TRUE))
                  ELSE Finite(ConfidenceHundredths(diff, total, total, FALSE))

(* ---------------------------------------------------------------------- *)
(* calculateScore, lines 712-749                                           *)
(* ---------------------------------------------------------------------- *)

\* line 717
FakeScore(vd) ==
    IF vd.validVotes > 0 THEN Quotient(vd.fakeVotes, vd.validVotes) ELSE Rat(0, 1)

\* Classify with the boundary excluded: fakeScore > threshold
ClassifyStrict(validVotes, fakeScore, th, mv) ==
    IF validVotes < mv THEN "insufficient"
    ELSE IF ~RatGeq(th, fakeScore) THEN "fake"
    ELSE "non-fake"

\* lines 723-729
Classify(validVotes, fakeScore, th, mv) ==
    IF validVotes < mv THEN "insufficient"
    ELSE IF RatGeq(fakeScore, th) THEN "fake"
    ELSE "non-fake"

\* lines 733-737: the snapshot stored by calculateScore
NewScore(vd, th, mv) ==
    LET fakeScore == FakeScore(vd)
    IN  [fakeScore  |-> fakeScore,
         confidence |-> calculateConfidence(vd.fakeVotes, vd.nonFakeVotes, mv),
         status     |-> Classify(vd.validVotes, fakeScore, th, mv)]

\* StatusChanged without the comparison: every recomputation notifies
StatusChangedAlways(newStatus, oldStatus) == TRUE

\* line 743
StatusChanged(newStatus, oldStatus) == newStatus # oldStatus

\* line 740: onScoreUpdate is called with this.scoreData, the snapshot just
\* stored
ScoreUpdateCall(status) == [fn |-> "onScoreUpdate", status |-> status]

\* line 744
StatusChangeCall(newStatus, oldStatus) ==
    [fn |-> "onStatusChange", new |-> newStatus, old |-> oldStatus]

\* Callbacks that notifies the status change before the score update
CallbacksStatusFirst(o, newStatus, oldStatus) ==
    LET notify == StatusChanged(newStatus, oldStatus)
    IN  [o EXCEPT !.scoreUpdates = 1,
                  !.statusEvents = IF notify
                                   THEN <<[new |-> newStatus, old |-> oldStatus]>>
                                   ELSE <<>>,
                  !.calls = (IF notify
                             THEN <<StatusChangeCall(newStatus, oldStatus)>>
                             ELSE <<>>)
                            \o <<ScoreUpdateCall(newStatus)>>,
                  !.threw = (onScoreUpdate = "throws")
                            \/ (notify /\ onStatusChange = "throws")]

\* lines 739-746: the callbacks run by calculateScore, in the order of the
\* calls; onStatusChange is reached only when onScoreUpdate has returned
Callbacks(o, newStatus, oldStatus) ==
    LET notify == onScoreUpdate = "returns" /\ StatusChanged(newStatus, oldStatus)
    IN  [o EXCEPT !.scoreUpdates = 1,
                  !.statusEvents = IF notify
                                   THEN <<[new |-> newStatus, old |-> oldStatus]>>
                                   ELSE <<>>,
                  !.calls = <<ScoreUpdateCall(newStatus)>>
                            \o (IF notify
                                THEN <<StatusChangeCall(newStatus, oldStatus)>>
                                ELSE <<>>),
                  !.threw = (onScoreUpdate = "throws")
                            \/ (notify /\ onStatusChange = "throws")]

\* Recompute that classifies under the policy in force before the call
RecomputeStale(o, vd, th, mv) ==
    LET ns == NewScore(vd, threshold, minVotes)
    IN  /\ scoreData' = ns
        /\ out' = Callbacks(o, ns.status, scoreData.status)

\* the effect of this.calculateScore() under tally vd and policy th, mv
Recompute(o, vd, th, mv) ==
    LET ns == NewScore(vd, th, mv)
    IN  /\ scoreData' = ns
        /\ out' = Callbacks(o, ns.status, scoreData.status)

calculateScore ==
    /\ Recompute([EmptyOut EXCEPT !.op = "calculateScore"],
                 voteData, threshold, minVotes)
    /\ UNCHANGED <<voteComponent, config, threshold, minVotes, currentNewsId, voteData, inFlight,
                       started>>

(* ---------------------------------------------------------------------- *)
(* updateVoteData, lines 689-707                                           *)
(* ---------------------------------------------------------------------- *)

\* lines 693-699
TallyOf(data) ==
    [fakeVotes    |-> OrNum(data.fakeVotes, 0),
     nonFakeVotes |-> OrNum(data.nonFakeVotes, 0),
     totalVotes   |-> OrNum(data.totalVotes, 0),
     invalidVotes |-> OrNum(data.invalidVotes, 0),
     validVotes   |-> OrNum(data.validVotes,
                            OrNum(data.fakeVotes, 0) + OrNum(data.nonFakeVotes, 0))]

\* the body of updateVoteData(newsId, data), reported in o
UpdateVoteDataBody(o, newsId, data) ==
    LET vd == TallyOf(data)
    IN  /\ currentNewsId' = newsId
        /\ voteData' = vd
        /\ Recompute(o, vd, threshold, minVotes)

updateVoteData(ids) ==
    \E newsId \in ids, data \in VoteInputs :
        /\ UpdateVoteDataBody([EmptyOut EXCEPT !.op = "updateVoteData",
                                               !.newsId = newsId],
                              newsId, data)
        /\ UNCHANGED <<voteComponent, config, threshold, minVotes, inFlight, started>>

\* updateVoteData with every tally of up to MaxVotes votes of each kind
updateVoteDataCounts ==
    \E newsId \in OneArticle, f \in 0..MaxVotes, n \in 0..MaxVotes :
        /\ UpdateVoteDataBody([EmptyOut EXCEPT !.op = "updateVoteData",
                                               !.newsId = newsId],
                              newsId,
                              Data(Some(f), Some(n), Undefined, Undefined, Undefined))
        /\ UNCHANGED <<voteComponent, config, threshold, minVotes, inFlight, started>>

(* ---------------------------------------------------------------------- *)
(* setThreshold, lines 910-919; setMinVotes, lines 925-934                 *)
(* ---------------------------------------------------------------------- *)

\* ThresholdAccepted without the upper limit
ThresholdAcceptedNoUpper(t) == t.n >= 0

\* line 911: threshold >= 0 && threshold <= 1
ThresholdAccepted(t) == t.n >= 0 /\ t.n <= t.d

\* line 926
MinVotesAccepted(m) == m >= 0

setThreshold ==
    \E t \in ThresholdArgs :
        LET o == [EmptyOut EXCEPT !.op = "setThreshold", !.arg = Some(t),
                                  !.accepted = ThresholdAccepted(t)]
        IN  /\ IF ThresholdAccepted(t)
               THEN /\ threshold' = t
                    /\ Recompute(o, voteData, t, minVotes)
               ELSE /\ out' = o
                    /\ UNCHANGED <<threshold, scoreData>>
            /\ UNCHANGED <<voteComponent, config, minVotes, currentNewsId, voteData, inFlight, started>>

setMinVotes ==
    \E m \in MinVotesArgs :
        LET o == [EmptyOut EXCEPT !.op = "setMinVotes", !.arg = Some(m),
                                  !.accepted = MinVotesAccepted(m)]
        IN  /\ IF MinVotesAccepted(m)
               THEN /\ minVotes' = m
                    /\ Recompute(o, voteData, threshold, m)
               ELSE /\ out' = o
                    /\ UNCHANGED <<minVotes, scoreData>>
            /\ UNCHANGED <<voteComponent, config, threshold, currentNewsId, voteData, inFlight, started>>

(* ---------------------------------------------------------------------- *)
(* recalculateScore, lines 777-825                                         *)
(* ---------------------------------------------------------------------- *)

\* lines 778-799: the call runs up to its await and suspends
recalculateScoreCall(ids) ==
    \E newsId \in ids :
        /\ started < MaxRecalcs
        /\ Len(inFlight) < MaxInFlight
        /\ started' = started + 1
        /\ inFlight' = Append(inFlight, [newsId |-> newsId,
                                         overlapped |-> inFlight # <<>>])
        /\ out' = [EmptyOut EXCEPT !.op = "recalculateScore.call",
                                   !.newsId = newsId]
        /\ UNCHANGED <<voteComponent, config, threshold, minVotes, currentNewsId, voteData, scoreData>>

\* lines 802-811: the mocked response, built after the await from the state
\* the continuation finds.  r3 = Math.floor(Math.random() * 3), r2 likewise.
MockData(vd, sd, r3, r2) ==
    [fakeVotes    |-> vd.fakeVotes + r3,
     nonFakeVotes |-> vd.nonFakeVotes + r2,
     invalidVotes |-> vd.invalidVotes,
     status       |-> sd.status]

\* MockAsInput that does not pass invalidVotes on
MockAsInputNoInvalid(m) ==
    Data(Some(m.fakeVotes), Some(m.nonFakeVotes), Undefined, Undefined, Undefined)

\* the data object of the mocked response as updateVoteData sees it
MockAsInput(m) ==
    Data(Some(m.fakeVotes), Some(m.nonFakeVotes), Undefined,
         Some(m.invalidVotes), Undefined)

\* recalculateScoreResume of a call whose continuation is dropped: the call
\* settles with its read but updateVoteData is not run
recalculateScoreResumeDropped ==
    \E r3 \in 0..2, r2 \in 0..1 :
        /\ inFlight # <<>>
        /\ LET call == Head(inFlight)
               mock == MockData(voteData, scoreData, r3, r2)
           IN  out' = [EmptyOut EXCEPT !.op = "recalculateScore.resume",
                                       !.newsId = call.newsId,
                                       !.value = Some(mock),
                                       !.overlapped = call.overlapped
                                                       \/ Len(inFlight) > 1]
        /\ inFlight' = Tail(inFlight)
        /\ UNCHANGED <<voteComponent, config, threshold, minVotes, started,
                       currentNewsId, voteData, scoreData>>

\* lines 799-824: the timers all wait 800 ms, so the oldest suspended call
\* continues first; it resolves with the mocked response, or rejects with
\* what updateVoteData threw.
recalculateScoreResume ==
    \E r3 \in 0..2, r2 \in 0..1 :
        /\ inFlight # <<>>
        /\ LET call == Head(inFlight)
               mock == MockData(voteData, scoreData, r3, r2)
               o    == [EmptyOut EXCEPT !.op = "recalculateScore.resume",
                                        !.newsId = call.newsId,
                                        !.value = Some(mock),
                                        !.overlapped = call.overlapped
                                                        \/ Len(inFlight) > 1]
           IN  UpdateVoteDataBody(o, call.newsId, MockAsInput(mock))
        /\ inFlight' = Tail(inFlight)
        /\ UNCHANGED <<voteComponent, config, threshold, minVotes, started>>

(* ---------------------------------------------------------------------- *)
(* an onScoreUpdate callback that calls back into the calculator            *)
(*                                                                         *)
(*   let nested = false;                                                   *)
(*   onScoreUpdate: () => { if (!nested) { nested = true;                  *)
(*                          calc.setThreshold(0.5); nested = false; } }    *)
(* ---------------------------------------------------------------------- *)

\* the threshold the callback sets
NestedThreshold == Rat(1, 2)

\* calculateScore (lines 712-749) under tally vd and policy th, mv when
\* onScoreUpdate (line 740) runs setThreshold(NestedThreshold) before it
\* returns: the nested calculateScore stores its snapshot and makes its calls
\* first, then the outer one goes on with line 743 and its own newStatus and
\* oldStatus
RecomputeReentered(o, vd, th, mv) ==
    LET outerStatus  == Classify(vd.validVotes, FakeScore(vd), th, mv)
        nestedStatus == Classify(vd.validVotes, FakeScore(vd), NestedThreshold, mv)
        nestedEvent == IF StatusChanged(nestedStatus, outerStatus)
                       THEN <<[new |-> nestedStatus, old |-> outerStatus]>>
                       ELSE <<>>
        outerEvent  == IF StatusChanged(outerStatus, scoreData.status)
                       THEN <<[new |-> outerStatus, old |-> scoreData.status]>>
                       ELSE <<>>
        AsCall(ev) == [i \in 1..Len(ev) |-> StatusChangeCall(ev[i].new, ev[i].old)]
    IN  /\ threshold' = NestedThreshold
        /\ scoreData' = NewScore(vd, NestedThreshold, mv)
        /\ out' = [o EXCEPT !.scoreUpdates = 2,
                            !.statusEvents = nestedEvent \o outerEvent,
                            !.calls = <<ScoreUpdateCall(outerStatus),
                                        ScoreUpdateCall(nestedStatus)>>
                                      \o AsCall(nestedEvent) \o AsCall(outerEvent)]

updateVoteDataReentered ==
    \E newsId \in OneArticle, data \in VoteInputs :
        LET vd == TallyOf(data)
        IN  /\ currentNewsId' = newsId
            /\ voteData' = vd
            /\ RecomputeReentered([EmptyOut EXCEPT !.op = "updateVoteData",
                                                   !.newsId = newsId],
                                  vd, threshold, minVotes)
            /\ UNCHANGED <<voteComponent, config, minVotes, inFlight, started>>

setMinVotesReentered ==
    \E m \in MinVotesArgs :
        LET o == [EmptyOut EXCEPT !.op = "setMinVotes", !.arg = Some(m)]
        IN  IF MinVotesAccepted(m)
            THEN /\ minVotes' = m
                 /\ RecomputeReentered(o, voteData, threshold, m)
                 /\ UNCHANGED <<voteComponent, config, currentNewsId, voteData, inFlight, started>>
            ELSE /\ out' = [o EXCEPT !.accepted = FALSE]
                 /\ UNCHANGED <<voteComponent, config, threshold, minVotes, currentNewsId, voteData,
                                scoreData, inFlight, started>>

(* ---------------------------------------------------------------------- *)
(* formatPercentage, getProgressBarConfig, lines 880-904                   *)
(* ---------------------------------------------------------------------- *)

\* line 881 for value = fakeScore: Math.round(fakeScore * 100), in doubles
\* where the product is halfway between two integers (0 < fakeScore < 1 there)
FakePercentage(fakeScore) ==
    IF IsTie(100 * fakeScore.n, fakeScore.d)
    THEN RoundDouble(DoubleMul(DoubleOf(100),
                               DoubleDiv(fakeScore.n, fakeScore.d)))[1]
    ELSE RoundHundredths(100 * fakeScore.n, fakeScore.d)

\* lines 890, 881: Math.round((1 - fakeScore) * 100)
NonFakePercentage(fakeScore) ==
    IF IsTie(100 * fakeScore.n, fakeScore.d)
    THEN RoundDouble(DoubleMul(DoubleOf(100),
                               OneMinus(DoubleDiv(fakeScore.n, fakeScore.d))))[1]
    ELSE RoundHundredths(100 * (fakeScore.d - fakeScore.n), fakeScore.d)

\* lines 888-904: the two widths, as numbers of percent
getProgressBarConfig ==
    /\ out' = [EmptyOut EXCEPT
                  !.op = "getProgressBarConfig",
                  !.value = Some([fake    |-> FakePercentage(scoreData.fakeScore),
                                  nonFake |-> NonFakePercentage(scoreData.fakeScore)])]
    /\ UNCHANGED <<voteComponent, config, threshold, minVotes, currentNewsId, voteData, scoreData,
                   inFlight, started>>

(* ---------------------------------------------------------------------- *)
(* getScoreData, getVoteData, lines 831-841, and what a collaborator can   *)
(* do with an object the calculator handed out                             *)
(* ---------------------------------------------------------------------- *)

\* line 832: { ...this.scoreData }, a new object with the same fields
getScoreData ==
    /\ out' = [EmptyOut EXCEPT !.op = "getScoreData", !.value = Some(scoreData)]
    /\ UNCHANGED <<voteComponent, config, threshold, minVotes, currentNewsId, voteData, scoreData,
                   inFlight, started>>

\* line 840: { ...this.voteData }
getVoteData ==
    /\ out' = [EmptyOut EXCEPT !.op = "getVoteData", !.value = Some(voteData)]
    /\ UNCHANGED <<voteComponent, config, threshold, minVotes, currentNewsId, voteData, scoreData,
                   inFlight, started>>

\* the objects the last operation handed out, and whether each is the object
\* this.scoreData itself: calculateScore returns this.scoreData (line 748) and
\* passes it to onScoreUpdate (line 740); the getters return spread copies
HandedOut ==
    (IF out.op = "getScoreData"
     THEN {[by |-> "getScoreData", live |-> FALSE]} ELSE {})
    \cup (IF out.op = "getVoteData"
          THEN {[by |-> "getVoteData", live |-> FALSE]} ELSE {})
    \cup (IF out.op = "calculateScore"
          THEN {[by |-> "calculateScore", live |-> TRUE]} ELSE {})
    \cup (IF out.scoreUpdates = 1
          THEN {[by |-> "onScoreUpdate", live |-> TRUE]} ELSE {})

\* a collaborator assigns the status field of an object it was handed
mutateHandedOut ==
    \E h \in HandedOut, w \in {"fake", "non-fake"} :
        /\ scoreData' = IF h.live THEN [scoreData EXCEPT !.status = w] ELSE scoreData
        /\ out' = [EmptyOut EXCEPT !.op = "mutate", !.arg = Some(h.by)]
        /\ UNCHANGED <<voteComponent, config, threshold, minVotes, currentNewsId, voteData,
                       inFlight, started>>

(* ---------------------------------------------------------------------- *)
(* destroy, lines 1246-1263                                                *)
(* ---------------------------------------------------------------------- *)

destroy ==
    /\ currentNewsId' = NoNews
    /\ voteData' = ZeroVotes
    /\ scoreData' = PendingScore
    /\ out' = [EmptyOut EXCEPT !.op = "destroy"]
    /\ UNCHANGED <<voteComponent, config, threshold, minVotes, inFlight, started>>

(* ---------------------------------------------------------------------- *)
(* VoteComponent (src/unnamed/part_002, lines 10-608)                      *)
(*                                                                         *)
(* One component on the page of one article, and the vote server behind    *)
(* src/utils/api.js.  The server is not part of the sources: here it keeps *)
(* the two counts of the article and the vote of the user (ledger), a      *)
(* request succeeds or fails, and fetchWithTimeout (api.js, lines 28-35)   *)
(* settles every request.  Each async method is one action per             *)
(* synchronous stretch.  The component imports auth from './auth.js'; the  *)
(* object of src/components/auth.js has no isLoggedIn method (auth =       *)
(* "stub": the call throws), another build answers from the stored token   *)
(* as src/frontend/utils/auth.js does.                                     *)
(* ---------------------------------------------------------------------- *)

\* handleVote calls that reach submitVote over a run
MaxSubmits == 3

\* loadData calls suspended at their await at the same time
MaxLoads == 2

Null == <<>>

\* the two buttons, lines 315-319
VoteResults == {"Fake", "Not Fake"}

\* lines 372-378: what loadVoteStats returns when the request fails
DefaultStats == [fakeVotes |-> 0, notFakeVotes |-> 0]

\* GET /votes/stats/:newsId
StatsOf(l) == [fakeVotes |-> l.fakeVotes, notFakeVotes |-> l.notFakeVotes]

\* POST /votes: the user's earlier vote, if any, is replaced
Cast(l, v) ==
    LET earlier(w) == IF l.userVote = <<w>> THEN 1 ELSE 0
    IN  [fakeVotes    |-> l.fakeVotes - earlier("Fake")
                          + (IF v = "Fake" THEN 1 ELSE 0),
         notFakeVotes |-> l.notFakeVotes - earlier("Not Fake")
                          + (IF v = "Not Fake" THEN 1 ELSE 0),
         userVote     |-> <<v>>]

RemoveAt(s, i) == SubSeq(s, 1, i - 1) \o SubSeq(s, i + 1, Len(s))

\* lines 446-469: updateVoteButtons calls auth.isLoggedIn() and then writes
\* to the buttons in every branch; destroy has set them to null
UpdateUIThrows == auth = "stub" \/ ~mounted

\* a page without a VoteComponent
NoVoteComponent ==
    /\ auth = "stub"
    /\ mounted = FALSE
    /\ userVote = Null
    /\ voteStats = Null
    /\ isVoting = FALSE
    /\ ledger = [fakeVotes |-> 0, notFakeVotes |-> 0, userVote |-> Null]
    /\ loading = <<>>
    /\ voting = <<>>
    /\ submits = 0

\* lines 19-35 and 41-50: new VoteComponent(options) with its container on
\* the page; init() renders and suspends in loadData.  loadUserVote has read
\* the token before suspending (line 350).
VoteComponentConstructed(a, token) ==
    /\ auth = a
    /\ mounted = TRUE
    /\ userVote = Null
    /\ voteStats = Null
    /\ isVoting = FALSE
    /\ ledger = [fakeVotes |-> 0, notFakeVotes |-> 0, userVote |-> Null]
    /\ loading = <<[token |-> token]>>
    /\ voting = <<>>
    /\ submits = 0

\* the tokens getToken() can return under each auth
Tokens(a) ==
    IF a = "stub" THEN BOOLEAN ELSE {a = "loggedIn"}

\* the user logs in or out (the token is stored or removed)
login ==
    /\ auth = "loggedOut"
    /\ auth' = "loggedIn"
    /\ out' = [EmptyOut EXCEPT !.op = "login"]
    /\ UNCHANGED <<calculator, mounted, userVote, voteStats, isVoting, ledger,
                   loading, voting, submits>>

logout ==
    /\ auth = "loggedIn"
    /\ auth' = "loggedOut"
    /\ out' = [EmptyOut EXCEPT !.op = "logout"]
    /\ UNCHANGED <<calculator, mounted, userVote, voteStats, isVoting, ledger,
                   loading, voting, submits>>

\* lines 577-579 and 326-331: refresh calls loadData, which sends the two
\* requests and suspends
refresh ==
    \E token \in Tokens(auth) :
        /\ Len(loading) < MaxLoads
        /\ loading' = Append(loading, [token |-> token])
        /\ out' = [EmptyOut EXCEPT !.op = "refresh"]
        /\ UNCHANGED <<calculator, auth, mounted, userVote, voteStats, isVoting,
                       ledger, voting, submits>>

\* lines 331-341: both requests of a loadData call have settled, in any
\* order among the calls.  A failed request gives null (line 358) and the
\* default statistics (lines 372-378); what updateUI throws is caught.
loadDataResume ==
    \E i \in DOMAIN loading, userOk \in BOOLEAN, statsOk \in BOOLEAN :
        LET userVoteData == IF loading[i].token /\ userOk
                            THEN ledger.userVote ELSE Null
            statsData    == IF statsOk THEN StatsOf(ledger) ELSE DefaultStats
        IN  /\ userVote' = userVoteData
            /\ voteStats' = <<statsData>>
            /\ loading' = RemoveAt(loading, i)
            /\ out' = [EmptyOut EXCEPT !.op = "loadData.resume",
                                       !.value = <<statsData>>]
            /\ UNCHANGED <<calculator, auth, mounted, isVoting, ledger, voting,
                           submits>>

\* Submits without the isVoting guard of line 394
SubmitsWhileVoting(voteResult) ==
    /\ auth = "loggedIn"
    /\ ~(userVote # Null /\ userVote[1] = voteResult)

\* lines 388-400: the three early returns of handleVote are passed
Submits(voteResult) ==
    /\ auth = "loggedIn"
    /\ ~isVoting
    /\ ~(userVote # Null /\ userVote[1] = voteResult)

\* lines 386-410: handleVote up to its first await, or to an early return
handleVote ==
    \E voteResult \in VoteResults :
        IF Submits(voteResult)
        THEN /\ submits < MaxSubmits
             /\ isVoting' = TRUE
             /\ voting' = Append(voting, [voteResult |-> voteResult,
                                          awaiting |-> "submitVote"])
             /\ submits' = submits + 1
             /\ out' = [EmptyOut EXCEPT !.op = "handleVote",
                                        !.arg = <<voteResult>>]
             /\ UNCHANGED <<calculator, auth, mounted, userVote, voteStats,
                            ledger, loading>>
        ELSE /\ out' = [EmptyOut EXCEPT !.op = "handleVote",
                                        !.arg = <<voteResult>>,
                                        !.accepted = FALSE,
                                        !.threw = (auth = "stub")]
             /\ UNCHANGED <<calculator, voteComponent>>

\* lines 407-413 and 419-427: submitVote has settled.  Fulfilled: the vote
\* is on the server, userVote is the result and loadVoteStats is awaited.
\* Rejected: onVoteError is called and finally resets isVoting.
handleVoteSubmitted ==
    \E i \in DOMAIN voting, ok \in BOOLEAN :
        /\ voting[i].awaiting = "submitVote"
        /\ IF ok
           THEN /\ ledger' = Cast(ledger, voting[i].voteResult)
                /\ userVote' = <<voting[i].voteResult>>
                /\ voting' = [voting EXCEPT ![i].awaiting = "loadVoteStats"]
                /\ out' = [EmptyOut EXCEPT !.op = "handleVote.submitted",
                                           !.arg = <<voting[i].voteResult>>]
                /\ UNCHANGED isVoting
           ELSE /\ isVoting' = FALSE
                /\ voting' = RemoveAt(voting, i)
                /\ out' = [EmptyOut EXCEPT !.op = "handleVote.settled",
                                           !.arg = <<voting[i].voteResult>>,
                                           !.threw = TRUE,
                                           !.calls = <<[fn |-> "onVoteError"]>>]
                /\ UNCHANGED <<ledger, userVote>>
        /\ UNCHANGED <<calculator, auth, mounted, voteStats, loading, submits>>

\* lines 413-427: loadVoteStats has settled with the statistics of the
\* server, or with the default ones.  Its value is not used (line 413);
\* updateUI renders this.voteStats, then onVoteSuccess is called, or
\* onVoteError when updateUI threw; finally resets isVoting.
handleVoteLoaded ==
    \E i \in DOMAIN voting, ok \in BOOLEAN :
        /\ voting[i].awaiting = "loadVoteStats"
        /\ LET stats == IF ok THEN StatsOf(ledger) ELSE DefaultStats
           IN  out' = [EmptyOut EXCEPT
                         !.op = "handleVote.settled",
                         !.arg = <<voting[i].voteResult>>,
                         !.value = <<stats>>,
                         !.threw = UpdateUIThrows,
                         !.calls = IF UpdateUIThrows
                                   THEN <<[fn |-> "onVoteError"]>>
                                   ELSE <<[fn |-> "onVoteSuccess"]>>]
        /\ isVoting' = FALSE
        /\ voting' = RemoveAt(voting, i)
        /\ UNCHANGED <<calculator, auth, mounted, userVote, voteStats, ledger,
                       loading, submits>>

\* lines 584-607: destroy of the component; isVoting is not among the
\* fields it resets and no request is cancelled
destroyVoteComponent ==
    /\ mounted
    /\ mounted' = FALSE
    /\ userVote' = Null
    /\ voteStats' = Null
    /\ out' = [EmptyOut EXCEPT !.op = "VoteComponent.destroy"]
    /\ UNCHANGED <<calculator, auth, isVoting, ledger, loading, voting, submits>>

(* ---------------------------------------------------------------------- *)
(* constructor, lines 658-682                                              *)
(* ---------------------------------------------------------------------- *)

\* line 662
ConstructedThreshold(opt) == OrRat(opt, DefaultThreshold)

\* line 663
ConstructedMinVotes(opt) == OrNum(opt, DefaultMinVotes)

\* new VoteScoreCalculator(options)
Constructed(t, m, sc, su) ==
        /\ onStatusChange = sc
        /\ onScoreUpdate = su
        /\ threshold = ConstructedThreshold(t)
        /\ minVotes = ConstructedMinVotes(m)
        /\ currentNewsId = NoNews
        /\ voteData = ZeroVotes
        /\ scoreData = PendingScore
        /\ inFlight = <<>>
        /\ started = 0
        /\ out = [EmptyOut EXCEPT !.op = "constructor",
                                  !.arg = Some([threshold |-> t, minVotes |-> m])]

\* any policy options, callbacks that return
Init ==
    \E t \in ThresholdOptions, m \in MinVotesOptions :
        Constructed(t, m, "returns", "returns") /\ NoVoteComponent

\* the default policy, callbacks that may throw
InitThrowing ==
    \E sc \in CallbackOptions, su \in CallbackOptions :
        Constructed(Undefined, Undefined, sc, su) /\ NoVoteComponent

Next ==
    \/ updateVoteData(OneArticle)
    \/ calculateScore
    \/ setThreshold
    \/ setMinVotes
    \/ recalculateScoreCall(OneArticle)
    \/ recalculateScoreResume
    \/ destroy

Spec == Init /\ [][Next]_vars

SpecThrowing == InitThrowing /\ [][Next]_vars

\* new VoteScoreCalculator(): the default policy, callbacks that return
DefaultCalculator == Constructed(Undefined, Undefined, "returns", "returns")

InitDefault == DefaultCalculator /\ NoVoteComponent

\* one calculator used for two articles under the default policy: the
\* operations that take an article id, and destroy
NextArticles ==
    \/ updateVoteData(NewsIds)
    \/ recalculateScoreCall(NewsIds)
    \/ recalculateScoreResume
    \/ destroy

SpecArticles == InitDefault /\ [][NextArticles]_vars

\* the calculator with collaborators that read it and write to what they got
NextReaders ==
    \/ updateVoteData(OneArticle)
    \/ calculateScore
    \/ getScoreData
    \/ getVoteData
    \/ mutateHandedOut

SpecReaders == InitDefault /\ [][NextReaders]_vars

\* new VoteScoreCalculator({onScoreUpdate}) with the callback that calls back
InitReentered ==
    Constructed(Undefined, Undefined, "returns", "recomputes") /\ NoVoteComponent

NextReentered ==
    \/ updateVoteDataReentered
    \/ setMinVotesReentered
    \/ destroy

SpecReentered == InitReentered /\ [][NextReentered]_vars

\* the calculator feeding a progress bar
NextProgressBar ==
    \/ updateVoteDataCounts
    \/ getProgressBarConfig

SpecProgressBar == InitDefault /\ [][NextProgressBar]_vars

\* the steps of recalculateScoreResume as they show on the queue of suspended
\* calls: it is the only operation that takes the oldest call off
ContinuationRuns == inFlight # <<>> /\ inFlight' = Tail(inFlight)

\* line 799: the 800 ms timer of a suspended call fires and the event loop
\* runs its continuation, whether or not anything awaits the promise
SpecFair == InitDefault /\ [][Next]_vars /\ WF_inFlight(ContinuationRuns)

\* the page of an article: an idle calculator and a VoteComponent that has
\* just been constructed
InitVote ==
    \E a \in {"stub", "loggedIn", "loggedOut"} :
        \E token \in Tokens(a) :
            DefaultCalculator /\ VoteComponentConstructed(a, token)

NextVote ==
    \/ login
    \/ logout
    \/ refresh
    \/ loadDataResume
    \/ handleVote
    \/ handleVoteSubmitted
    \/ handleVoteLoaded
    \/ destroyVoteComponent

SpecVote == InitVote /\ [][NextVote]_vars

\* api.js, lines 28-35: a request is raced against a 10 s timer, so the
\* promise handleVote awaits settles and its continuation runs
SpecVoteFair ==
    /\ InitVote /\ [][NextVote]_vars
    /\ WF_vars(handleVoteSubmitted)
    /\ WF_vars(handleVoteLoaded)

(* ---------------------------------------------------------------------- *)
(* Properties                                                              *)
(* ---------------------------------------------------------------------- *)

\* the last operation ran calculateScore
Recomputed == out.scoreUpdates = 1

Setters == {"setThreshold", "setMinVotes"}

\* The classification rule of the design, on integers: below the minimum the
\* verdict is insufficient; otherwise the fake share of the valid votes (0
\* when there are none) is compared with the threshold, equality included.
ExpectedStatus(vd, th, mv) ==
    IF vd.validVotes < mv THEN "insufficient"
    ELSE IF vd.validVotes > 0
         THEN IF vd.fakeVotes * th.d >= th.n * vd.validVotes THEN "fake"
              ELSE "non-fake"
         ELSE IF th.n <= 0 THEN "fake" ELSE "non-fake"

\* C1: after every recomputation the status is insufficient when validVotes <
\* minVotes, otherwise fake when fakeVotes / validVotes >= threshold (equality
\* counts as fake), otherwise non-fake.
C1_StatusFollowsRule ==
    Recomputed => scoreData.status = ExpectedStatus(voteData, threshold, minVotes)

\* 6 fake and 4 non-fake votes at threshold 0.6 and minVotes 5: fake
C1_Witness ==
    /\ out.op = "updateVoteData"
    /\ voteData.fakeVotes = 6 /\ voteData.nonFakeVotes = 4
    /\ threshold = Rat(3, 5) /\ minVotes = 5
    /\ scoreData.status = "fake"

\* C2: at most one recalculateScore call per article id is in flight at any
\* time.
C2_OneInFlightPerArticle ==
    \A i, j \in DOMAIN inFlight :
        i # j => inFlight[i].newsId # inFlight[j].newsId

\* C3: when a recalculateScore call that overlapped another call for the same
\* article completes, the tally holds the three counts of that call's own
\* read, all of them: no field comes from anywhere else.
C3_TallyIsOneRead ==
    (out.op = "recalculateScore.resume" /\ out.overlapped) =>
        /\ voteData.fakeVotes = out.value[1].fakeVotes
        /\ voteData.nonFakeVotes = out.value[1].nonFakeVotes
        /\ voteData.invalidVotes = out.value[1].invalidVotes

\* both of two overlapping calls have completed, on a tally with invalid votes
C3_Witness ==
    /\ out.op = "recalculateScore.resume" /\ out.overlapped
    /\ inFlight = <<>> /\ started = 2
    /\ voteData.invalidVotes > 0

\* C4: a recalculateScore call that rejects leaves voteData and scoreData as
\* they were.
C4_FailureKeepsState ==
    [][(out'.op = "recalculateScore.resume" /\ out'.threw) =>
          (voteData' = voteData /\ scoreData' = scoreData)]_vars

\* C5: onStatusChange is called exactly once for each change of the status
\* value, with the new and the old status, and is not called by a step that
\* leaves the status value as it was.
C5_OneEventPerStatusChange ==
    [][out'.statusEvents =
          IF scoreData'.status # scoreData.status
          THEN <<[new |-> scoreData'.status, old |-> scoreData.status]>>
          ELSE <<>>]_vars

\* C6: a recomputation with the tally and the policy unchanged since the
\* snapshot was computed stores the same snapshot again and does not call
\* onStatusChange.
C6_RecomputeIdempotent ==
    [][(/\ scoreData.status # "pending"
        /\ out'.scoreUpdates = 1
        /\ voteData' = voteData
        /\ threshold' = threshold
        /\ minVotes' = minVotes) =>
          (scoreData' = scoreData /\ out'.statusEvents = <<>>)]_vars

\* calculateScore called again on a computed snapshot: no notification
C6_Witness ==
    /\ out.op = "calculateScore"
    /\ out.scoreUpdates = 1
    /\ out.statusEvents = <<>>
    /\ scoreData.status = "fake"

OutOfRange(o) ==
    \/ o.op = "setThreshold" /\ (o.arg[1].n < 0 \/ o.arg[1].n > o.arg[1].d)
    \/ o.op = "setMinVotes" /\ o.arg[1] < 0

\* C8: setThreshold with a value below 0 or above 1, and setMinVotes with a
\* negative value, change neither the policy nor voteData nor scoreData and
\* call neither callback.
C8_InvalidPolicyRejected ==
    [][OutOfRange(out') =>
          /\ threshold' = threshold /\ minVotes' = minVotes
          /\ voteData' = voteData /\ scoreData' = scoreData
          /\ out'.scoreUpdates = 0 /\ out'.statusEvents = <<>>]_vars

\* setThreshold(1.5) was called on a computed snapshot
C8_Witness ==
    /\ out.op = "setThreshold" /\ out.arg = Some(Rat(3, 2))
    /\ threshold = Rat(3, 5)
    /\ scoreData.status = "non-fake"

\* C9: in every reachable state 0 <= threshold <= 1 and minVotes >= 0.
C9_PolicyInRange ==
    /\ threshold.n >= 0 /\ threshold.n <= threshold.d
    /\ minVotes >= 0

\* C10: a valid threshold (0 included) or minVotes (0 included) passed to the
\* constructor is the policy in force after construction.
C10_ConstructorInstallsPolicy ==
    out.op = "constructor" =>
        LET o == out.arg[1]
        IN  /\ (o.threshold # Undefined /\ ThresholdAccepted(o.threshold[1]))
                  => threshold = o.threshold[1]
            /\ (o.minVotes # Undefined /\ MinVotesAccepted(o.minVotes[1]))
                  => minVotes = o.minVotes[1]

\* C11: in every state scoreData.fakeScore is fakeVotes / validVotes when
\* validVotes > 0 and 0 when validVotes = 0, so it lies in [0, 1]; with zero
\* valid votes fakeScore and confidence are both 0.
C11_FakeScoreIsFakeShare ==
    /\ voteData.validVotes > 0 =>
          scoreData.fakeScore.n * voteData.validVotes
             = voteData.fakeVotes * scoreData.fakeScore.d
    /\ voteData.validVotes = 0 =>
          scoreData.fakeScore.n = 0 /\ scoreData.confidence = Finite(0)
    /\ scoreData.fakeScore.n >= 0
    /\ scoreData.fakeScore.n <= scoreData.fakeScore.d

\* h is num / den rounded half up to an integer, den > 0
IsHalfUp(h, num, den) ==
    /\ 2 * den * h <= 2 * num + den
    /\ 2 * num + den < 2 * den * (h + 1)

\* C12: for a tally of non-negative counts with valid votes and a policy with
\* minVotes >= 1, the stored confidence is
\*   (|fakeVotes - nonFakeVotes| / validVotes) * min(validVotes / (minVotes * 5), 1)
\* rounded half up to two decimals, once, at the end.
C12_ConfidenceRoundedHalfUp ==
    ( /\ minVotes >= 1
      /\ voteData.fakeVotes >= 0 /\ voteData.nonFakeVotes >= 0
      /\ voteData.validVotes = voteData.fakeVotes + voteData.nonFakeVotes
      /\ voteData.validVotes > 0 ) =>
        LET diff == Abs(voteData.fakeVotes - voteData.nonFakeVotes)
            den  == IF voteData.validVotes >= 5 * minVotes
                    THEN voteData.validVotes ELSE 5 * minVotes
        IN  /\ scoreData.confidence.kind = "finite"
            /\ IsHalfUp(scoreData.confidence.v, 100 * diff, den)

\* C13: in every state, whatever vote data was passed to updateVoteData or
\* produced by recalculateScore, scoreData.confidence is a number in [0, 1].
C13_ConfidenceInUnitInterval ==
    /\ scoreData.confidence.kind = "finite"
    /\ scoreData.confidence.v >= 0
    /\ scoreData.confidence.v <= 100

\* C14: under minVotes = 0 the vote-count factor is 1 for every tally with
\* validVotes > 0, so the confidence is |fakeVotes - nonFakeVotes| / validVotes
\* rounded to two decimals, and no infinite or undefined value is ever in the
\* snapshot.
C14_ZeroMinVotesNoDivisionByZero ==
    minVotes = 0 =>
        /\ scoreData.confidence.kind = "finite"
        /\ voteData.validVotes > 0 =>
              IsHalfUp(scoreData.confidence.v,
                       100 * Abs(voteData.fakeVotes - voteData.nonFakeVotes),
                       voteData.validVotes)

\* C15: in every state validVotes = fakeVotes + nonFakeVotes and
\* totalVotes = validVotes + invalidVotes: the derived counts are recomputed
\* from the three stored counters, never taken from supplied values.
C15_DerivedCountsRecomputed ==
    /\ voteData.validVotes = voteData.fakeVotes + voteData.nonFakeVotes
    /\ voteData.totalVotes = voteData.validVotes + voteData.invalidVotes

\* C16: no operation commits a tally with a negative counter; vote data with
\* a negative fakeVotes, nonFakeVotes or invalidVotes is rejected and leaves
\* the previous tally and snapshot as they were.
C16_NoNegativeCounter ==
    /\ voteData.fakeVotes >= 0
    /\ voteData.nonFakeVotes >= 0
    /\ voteData.invalidVotes >= 0

\* C17: once vote data has been supplied for an article (currentNewsId is
\* set), no later step of updateVoteData, setThreshold, setMinVotes,
\* recalculateScore or destroy brings the status back to 'pending'; with zero
\* valid votes and minVotes >= 1 the status is then 'insufficient'.
C17_PendingNeverReentered ==
    [][currentNewsId # NoNews =>
          /\ scoreData'.status # "pending"
          /\ (voteData'.validVotes = 0 /\ minVotes' >= 1)
                => scoreData'.status = "insufficient"]_vars

\* C18: while no vote data has been supplied (the calculator is as
\* constructed), setThreshold and setMinVotes leave the status 'pending' and
\* emit no status-change event.
C18_PolicyChangeKeepsPending ==
    [][(out.op = "constructor" /\ out'.op \in Setters) =>
          /\ scoreData'.status = "pending"
          /\ out'.statusEvents = <<>>]_vars

\* C19: every recalculateScore call that was started eventually completes,
\* and the step that completes it commits its whole read: the tally holds the
\* three counts of the read and the snapshot is the one computed from that
\* tally; no state shows a tally holding only part of the read.
C19_StartedCallCommits ==
    /\ \A j \in 1..MaxRecalcs :
          (started >= j) ~> (started - Len(inFlight) >= j)
    /\ [](out.op = "recalculateScore.resume" =>
             /\ voteData.fakeVotes = out.value[1].fakeVotes
             /\ voteData.nonFakeVotes = out.value[1].nonFakeVotes
             /\ voteData.invalidVotes = out.value[1].invalidVotes
             /\ out.scoreUpdates = 1
             /\ scoreData.status = ExpectedStatus(voteData, threshold, minVotes))

\* a single call, not overlapped by any other, has completed and committed a
\* read with more fake votes than before
C19_Witness ==
    /\ out.op = "recalculateScore.resume" /\ ~out.overlapped
    /\ started = 1 /\ inFlight = <<>>
    /\ currentNewsId = out.newsId
    /\ voteData.fakeVotes = 2 /\ voteData.validVotes = 2

\* C20: operations on one article never change what is committed for
\* another: when a recalculateScore call for an article completes, the counts
\* it commits are derived from that article's own tally (or from the empty
\* tally), never from the tally another article's updateVoteData or
\* recalculateScore left behind.
C20_ArticlesIndependent ==
    [][out'.op = "recalculateScore.resume" =>
          /\ currentNewsId \in {out'.newsId, NoNews}
          /\ currentNewsId' = out'.newsId]_vars

\* one vote was ingested: exactly one of fakeVotes, nonFakeVotes grew by one
IsIngest(before, after) ==
    /\ after.invalidVotes = before.invalidVotes
    /\ \/ /\ after.fakeVotes = before.fakeVotes + 1
          /\ after.nonFakeVotes = before.nonFakeVotes
       \/ /\ after.fakeVotes = before.fakeVotes
          /\ after.nonFakeVotes = before.nonFakeVotes + 1

\* one vote was invalidated: it left its valid counter for invalidVotes
IsInvalidation(before, after) ==
    /\ after.invalidVotes = before.invalidVotes + 1
    /\ \/ /\ after.fakeVotes = before.fakeVotes - 1
          /\ after.nonFakeVotes = before.nonFakeVotes
       \/ /\ after.fakeVotes = before.fakeVotes
          /\ after.nonFakeVotes = before.nonFakeVotes - 1

\* C21: only a recalculation replaces the tally wholesale; every other step
\* that changes the tally ingests one vote or invalidates one vote.
C21_OnlyRecalculationReplacesTally ==
    [][(voteData' # voteData /\ out'.op # "recalculateScore.resume") =>
          IsIngest(voteData, voteData') \/ IsInvalidation(voteData, voteData')]_vars

\* C22: collaborators only get copies: writing to an object handed out by
\* getScoreData, getVoteData, the return of calculateScore or the argument of
\* onScoreUpdate leaves the calculator's scoreData and voteData as they were.
C22_HandedOutAreCopies ==
    [][out'.op = "mutate" =>
          (scoreData' = scoreData /\ voteData' = voteData)]_vars

\* the statuses of the snapshots committed by an operation, in commit order:
\* each commit is followed at once by its onScoreUpdate call
CommittedStatuses(calls) ==
    LET IsCommit(c) == c.fn = "onScoreUpdate"
        commits == SelectSeq(calls, IsCommit)
    IN  [i \in 1..Len(commits) |-> commits[i].status]

\* the onStatusChange calls of an operation, in the order they were made
DeliveredEvents(calls) ==
    LET IsEvent(c) == c.fn = "onStatusChange"
        events == SelectSeq(calls, IsEvent)
    IN  [i \in 1..Len(events) |-> [new |-> events[i].new, old |-> events[i].old]]

\* the events due for commits made on top of status before, in commit order
RECURSIVE EventsInCommitOrder(_, _)
EventsInCommitOrder(before, statuses) ==
    IF statuses = <<>> THEN <<>>
    ELSE (IF Head(statuses) # before
          THEN <<[new |-> Head(statuses), old |-> before]>> ELSE <<>>)
         \o EventsInCommitOrder(Head(statuses), Tail(statuses))

\* C23: the status-change events of an operation are delivered within it, in
\* the order in which the snapshots that caused them were committed, also
\* when a callback triggers a further recomputation.
C23_EventsInCommitOrder ==
    [][DeliveredEvents(out'.calls)
          = EventsInCommitOrder(scoreData.status, CommittedStatuses(out'.calls))]_vars

\* C24: a recalculateScore that resolves carries the snapshot the
\* recalculation committed: the status in the resolved value is the committed
\* scoreData.status and its counts are the committed tally.
C24_ResolvedValueIsCommitted ==
    (out.op = "recalculateScore.resume" /\ ~out.threw) =>
        /\ out.value[1].status = scoreData.status
        /\ out.value[1].fakeVotes = voteData.fakeVotes
        /\ out.value[1].nonFakeVotes = voteData.nonFakeVotes
        /\ out.value[1].invalidVotes = voteData.invalidVotes

\* events lead from status first to status last without a gap
IsChain(first, events, last) ==
    IF events = <<>> THEN last = first
    ELSE /\ events[1].old = first
         /\ events[Len(events)].new = last
         /\ \A i \in 1..(Len(events) - 1) : events[i + 1].old = events[i].new

\* C25: the status-change notifications form an unbroken chain that starts at
\* 'pending' and ends at the current status: every step, destroy included,
\* extends the chain from the status before it to the status after it.
C25_NotificationsFormChain ==
    [][IsChain(scoreData.status, out'.statusEvents, scoreData'.status)]_vars

\* C26: every recomputation calls onScoreUpdate exactly once, with the
\* snapshot already stored in scoreData and before any onStatusChange call of
\* that recomputation; a rejected setThreshold / setMinVotes calls neither.
C26_ScoreUpdateOnceAndFirst ==
    /\ Recomputed =>
          /\ out.calls[1] = ScoreUpdateCall(scoreData.status)
          /\ \A i \in 2..Len(out.calls) : out.calls[i].fn = "onStatusChange"
          /\ Len(out.calls) <= 2
    /\ (out.op \in Setters /\ ~out.accepted) => out.calls = <<>>

\* a recomputation that changed the status has made both calls
C26_Witness ==
    /\ Recomputed
    /\ Len(out.calls) = 2
    /\ out.calls[2] = StatusChangeCall("fake", "non-fake")

\* C27: destroy resets currentNewsId, the tally and the snapshot and keeps
\* threshold and minVotes; a recalculateScore that was in flight when destroy
\* was called and completes right after it leaves the calculator reset and
\* calls no callback.
C27_DestroyedStaysReset ==
    [][/\ out'.op = "destroy" =>
             /\ currentNewsId' = NoNews
             /\ voteData' = ZeroVotes
             /\ scoreData' = PendingScore
             /\ threshold' = threshold /\ minVotes' = minVotes
       /\ (out.op = "destroy" /\ out'.op = "recalculateScore.resume") =>
             /\ currentNewsId' = NoNews
             /\ voteData' = ZeroVotes
             /\ scoreData' = PendingScore
             /\ out'.calls = <<>>]_vars

\* C28: the two percentages of getProgressBarConfig are each between 0 and
\* 100 and add up to exactly 100.
C28_PercentagesSumTo100 ==
    out.op = "getProgressBarConfig" =>
        LET bar == out.value[1]
        IN  /\ bar.fake \in 0..100
            /\ bar.nonFake \in 0..100
            /\ bar.fake + bar.nonFake = 100

\* C29: a VoteComponent never has more than one vote submission in flight:
\* while a handleVote call is in flight (isVoting) a further handleVote call
\* returns without submitting, and isVoting is reset when the call settles,
\* fulfilled or rejected, so that voting is not blocked for ever.
C29_OneSubmissionInFlight ==
    /\ [](Len(voting) <= 1 /\ (isVoting <=> voting # <<>>))
    /\ [][isVoting /\ out'.op = "handleVote"
            => ~out'.accepted /\ voting' = voting /\ ledger' = ledger
               /\ submits' = submits]_vars
    /\ (isVoting ~> ~isVoting)

\* a click on the other button, by a logged-in user, while a vote is in
\* flight: the call returned without submitting
C29_Witness ==
    /\ out.op = "handleVote"
    /\ ~out.accepted
    /\ isVoting
    /\ Len(voting) = 1
    /\ auth = "loggedIn"
    /\ out.arg # userVote
    /\ out.arg # <<voting[1].voteResult>>

\* C30: after a successful handleVote the component's voteStats are the
\* statistics that were loaded from the server after the vote was submitted.
C30_StatsAreFresh ==
    out.op = "handleVote.settled" /\ ~out.threw => voteStats = out.value

====
